---- MODULE Spec2Model ----
(***************************************************************************)
(* Story Weaver (AI picture-book generator): the App component's revision  *)
(* state machine (src/App.tsx), the BookViewer that drives it              *)
(* (src/components/BookViewer.tsx) and the generation service              *)
(* (services/geminiService, src/unnamed/part_004).                         *)
(*                                                                         *)
(* React state is modelled as the committed value after each event or      *)
(* await continuation: all setters called synchronously inside one handler *)
(* run or one continuation are batched into one step, and every handler    *)
(* reads the values of the render it was created in (its closure).         *)
(***************************************************************************)
EXTENDS Integers, Sequences, FiniteSets, TLC

\* ------------------------------------------------------------------ bounds
\* Largest number of pages the upstream text call returns in a draft.
MaxPages == 2
\* Cap on the length of storyHistory (the code has no cap).
MaxHistory == 3
\* Cap on the number of PDF exports in flight at once (the code has no cap).
MaxExports == 1

\* ------------------------------------------------------------------ values
\* ArtStyle enum members offered by the form (src/types.ts).
ArtStyles == {"Watercolor", "Anime"}
\* Upstream answers to a regeneration text call: new text / title / image prompt.
NewTexts == {"r"}
NewTitles == {"T1"}
NewPrompts == {"np1", "np2"}
\* What the user may type into the text editor and the instruction box.
EditTexts == {"e"}
Instructions == {"", " ", "smile"}
\* Error envelope messages of the upstream service ("" = envelope without one).
UpstreamMessages == {"", "quota"}

\* `null` of a Story-typed state, and `null` of the error / loading message.
NullStory == [null |-> TRUE]
NoError == "null"
NoMessage == "null"

\* String.prototype.trim() on the instruction values used here.
Trim(s) == IF s = " " THEN "" ELSE s

Last(s) == s[Len(s)]
Front(s) == SubSeq(s, 1, Len(s) - 1)

\* ----------------------------------------------------------- upstream / client
\* callProxy: a non-ok response throws Error(errorData.error?.message ||
\* 'API request failed').
ProxyError(msg) == IF msg = "" THEN "API request failed" ELSE msg

\* JSON.parse of a text payload that is not JSON throws a SyntaxError.
ParseError == "SyntaxError"

\* Messages with which a text call (callProxy + JSON.parse) can throw.
TextCallErrors == {ProxyError(m) : m \in UpstreamMessages} \cup {ParseError}
\* Messages with which an image call (callProxy) can throw.
ImageCallErrors == {ProxyError(m) : m \in UpstreamMessages}

\* `data:image/png;base64,${bytes}`
DataUrl(bytes) == "data:image/png;base64," \o bytes

\* The image service: the bytes it answers with are named after the prompt it
\* was sent, so the images of different requests are told apart.
RECURSIVE JoinTokens(_)
JoinTokens(tokens) ==
  IF tokens = <<>> THEN ""
  ELSE IF Len(tokens) = 1 THEN tokens[1]
  ELSE tokens[1] \o "|" \o JoinTokens(Tail(tokens))

RenderImage(prompt) == "img(" \o JoinTokens(prompt) \o ")"

\* The template generateStoryText resolves to: the draft of the text call
\* with `n` pages, page ids taken from the declared page_number.
DraftPage(k) ==
  [id |-> k, text |-> "d" \o ToString(k), imageUrl |-> "",
   imagePrompt |-> "p" \o ToString(k)]

StoryTemplate(n, artStyle) ==
  [title |-> "T0", coverImageUrl |-> "", characterDescription |-> "cd",
   artStyle |-> artStyle, pages |-> [k \in 1..n |-> DraftPage(k)],
   afterword |-> "aw"]

\* Mutant of PagePrompt: the style token is appended after the character.
PagePrompt_StyleLast(imagePrompt, artStyle, characterDescription) ==
  <<imagePrompt, characterDescription, artStyle>>

\* Image prompts (token sequences stand for the template strings).
CoverPrompt(title, characterDescription, artStyle) ==
  <<"Book cover", title, characterDescription, artStyle>>

PagePrompt(imagePrompt, artStyle, characterDescription) ==
  <<imagePrompt, artStyle, characterDescription>>

RegenCoverPrompt(newTitle, characterDescription, artStyle, newImagePrompt) ==
  <<"Book cover", newTitle, characterDescription, artStyle, newImagePrompt>>

\* Mutant of StorySummary: the slice runs up to and including the page itself.
StorySummary_Inclusive(s, pageIndex) == [k \in 1..(pageIndex + 1) |-> s.pages[k].text]

\* story.pages.slice(0, pageIndex).map(p => p.text).join('\n'), 0-based index.
StorySummary(s, pageIndex) == [k \in 1..pageIndex |-> s.pages[k].text]

\* ------------------------------------------------------------------ state
VARIABLES
  appState,        \* 'FORM' | 'LOADING' | 'PREVIEW'
  story,           \* Story | null
  storyHistory,    \* Story[]
  error,           \* string | null
  loadingMessage,  \* string | null
  pipe,            \* the App handler awaiting an upstream call, if any
  viewer,          \* BookViewer's own state while it is mounted
  exports,         \* handleDownloadPdf runs awaiting a timer or a capture
  savedPdf,        \* what an export has handed to pdf.save() since the last App command
  isGeneratingPdf, \* BookViewer state of the revision that has it
  calls,           \* upstream calls the latest App command has issued, in order
  requestedPageCount, \* pageCount of the latest IdeaForm submit (history variable)
  proxy,           \* one invocation of the /api/generate handler
  draft,           \* the template of the latest text call (history variable)
  genStory,        \* the story the latest generation committed (history variable)
  pre,             \* story/storyHistory when the latest command started
  lastOp           \* the step taken last (history variable)

vars == <<appState, story, storyHistory, error, loadingMessage, pipe, viewer,
          exports, savedPdf, isGeneratingPdf, calls, requestedPageCount, proxy,
          draft, genStory, pre, lastOp>>

Idle == [kind |-> "none"]
\* No export has saved or been abandoned since the last one started.
NoPdf == [status |-> "none"]
\* const [pageCount, setPageCount] = useState<number>(4)
DefaultPageCount == 4
\* The handler has not been invoked.
NoInvocation == [none |-> TRUE]
NoPre == [none |-> TRUE]
\* story / storyHistory as a command finds them, with the page it targets (-1: none).
Snapshot(target) == [story |-> story, storyHistory |-> storyHistory, target |-> target]

\* BookViewer's useState initial values.
ViewerInit ==
  [currentPageIndex |-> -1, isEditingText |-> FALSE, editText |-> "",
   showEditPanel |-> FALSE, editInstruction |-> ""]

\* renderContent: BookViewer is rendered only in PREVIEW with a story.
ViewerMounted == appState = "PREVIEW" /\ story # NullStory
FormMounted == appState = "FORM"

Init ==
  /\ appState = "FORM"
  /\ story = NullStory
  /\ storyHistory = <<>>
  /\ error = NoError
  /\ loadingMessage = NoMessage
  /\ pipe = Idle
  /\ viewer = ViewerInit
  /\ exports = <<>>
  /\ savedPdf = NoPdf
  /\ isGeneratingPdf = FALSE
  /\ calls = <<>>
  /\ requestedPageCount = DefaultPageCount
  /\ proxy = NoInvocation
  /\ draft = NullStory
  /\ genStory = NullStory
  /\ pre = NoPre
  /\ lastOp = "init"

\* err instanceof Error ? err.message : fallback (every throw here is an Error).
ErrorText(message, fallback) == message

\* ------------------------------------------------------- handleStoryGeneration
\* IdeaForm submit -> handleStoryGeneration up to its first await.
handleStoryGeneration(artStyle) ==
  /\ FormMounted
  /\ pre' = Snapshot(-1)
  /\ appState' = "LOADING"
  /\ error' = NoError
  /\ story' = NullStory
  /\ storyHistory' = <<>>
  /\ loadingMessage' = "text"
  /\ pipe' = [kind |-> "generate", stage |-> "text", artStyle |-> artStyle]
  /\ draft' = NullStory
  /\ genStory' = NullStory
  /\ calls' = <<"text">>
  /\ lastOp' = "generate"
  /\ UNCHANGED <<viewer, exports, savedPdf, isGeneratingPdf, proxy>>

\* The catch and finally blocks of handleStoryGeneration.
GenerationFailed(message, op) ==
  /\ error' = ErrorText(message, "generation failed")
  /\ appState' = "FORM"
  /\ loadingMessage' = NoMessage
  /\ pipe' = Idle
  /\ lastOp' = op
  /\ UNCHANGED <<story, storyHistory, viewer, exports, savedPdf,
                 isGeneratingPdf, calls, requestedPageCount, proxy, draft,
                 genStory, pre>>

\* The statements after the page loop: commit the assembled story.
GenerationCommit(finalStory) ==
  /\ story' = finalStory
  /\ storyHistory' = <<finalStory>>
  /\ appState' = "PREVIEW"
  /\ loadingMessage' = NoMessage
  /\ pipe' = Idle
  /\ viewer' = ViewerInit
  /\ genStory' = finalStory
  /\ lastOp' = "generateDone"
  /\ UNCHANGED calls

\* IdeaForm.handleSubmit: onGenerate(idea, characterImage, theme, artStyle,
\* pageCount); handleStoryGeneration takes the first four.
handleSubmit(artStyle, pageCount) ==
  /\ requestedPageCount' = pageCount
  /\ handleStoryGeneration(artStyle)

\* The text call settled with a draft whose page count is one of `sizes`.
GenTextSettled(sizes) ==
  /\ pipe.kind = "generate" /\ pipe.stage = "text"
  /\ \E n \in sizes :
       LET storyTemplate == StoryTemplate(n, pipe.artStyle) IN
       /\ draft' = storyTemplate
       /\ pipe' = [kind |-> "generate", stage |-> "cover", artStyle |-> pipe.artStyle,
                   storyTemplate |-> storyTemplate,
                   prompt |-> CoverPrompt(storyTemplate.title,
                                          storyTemplate.characterDescription,
                                          pipe.artStyle)]
  /\ loadingMessage' = "cover"
  /\ calls' = Append(calls, "cover")
  /\ lastOp' = "generateTextOk"
  /\ UNCHANGED <<appState, story, storyHistory, error, viewer, exports,
                 savedPdf, isGeneratingPdf, requestedPageCount, proxy, genStory,
                 pre>>

GenTextOk == GenTextSettled(1..MaxPages)

GenTextFail ==
  /\ pipe.kind = "generate" /\ pipe.stage = "text"
  /\ \E m \in TextCallErrors : GenerationFailed(m, "generateTextFail")

\* Mutant of GenerationContinue: every in-progress story is pushed to the history.
GenerationContinue_CommitsProgress(inProgressStory, finalPages, i, op) ==
  LET tmpl == pipe.storyTemplate IN
  IF i < Len(tmpl.pages)
  THEN /\ story' = [inProgressStory EXCEPT !.pages = finalPages]
       /\ storyHistory' = Append(storyHistory, story')
       /\ loadingMessage' = "page" \o ToString(i + 1)
       /\ calls' = Append(calls, "page" \o ToString(i + 1))
       /\ pipe' = [kind |-> "generate", stage |-> "page", artStyle |-> pipe.artStyle,
                   storyTemplate |-> tmpl, inProgressStory |-> inProgressStory,
                   finalPages |-> finalPages, i |-> i,
                   prompt |-> PagePrompt(tmpl.pages[i + 1].imagePrompt, pipe.artStyle,
                                         tmpl.characterDescription)]
       /\ lastOp' = op
       /\ UNCHANGED <<appState, error, viewer, exports, savedPdf, isGeneratingPdf,
                      requestedPageCount, proxy, draft, genStory, pre>>
  ELSE /\ GenerationCommit([inProgressStory EXCEPT !.pages = finalPages])
       /\ UNCHANGED <<error, exports, savedPdf, isGeneratingPdf, requestedPageCount,
                      proxy, draft, pre>>

\* Mutant of GenerationContinue: the page images are requested last page first.
GenerationContinue_Descending(inProgressStory, finalPages, i, op) ==
  LET tmpl == pipe.storyTemplate IN
  IF i < Len(tmpl.pages)
  THEN /\ story' = [inProgressStory EXCEPT !.pages = finalPages]
       /\ loadingMessage' = "page" \o ToString(i + 1)
       /\ calls' = Append(calls, "page" \o ToString(Len(tmpl.pages) - i))
       /\ pipe' = [kind |-> "generate", stage |-> "page", artStyle |-> pipe.artStyle,
                   storyTemplate |-> tmpl, inProgressStory |-> inProgressStory,
                   finalPages |-> finalPages, i |-> i,
                   prompt |-> PagePrompt(tmpl.pages[Len(tmpl.pages) - i].imagePrompt,
                                         pipe.artStyle, tmpl.characterDescription)]
       /\ lastOp' = op
       /\ UNCHANGED <<appState, storyHistory, error, viewer, exports, savedPdf,
                      isGeneratingPdf, requestedPageCount, proxy, draft, genStory,
                      pre>>
  ELSE /\ GenerationCommit([inProgressStory EXCEPT !.pages = finalPages])
       /\ UNCHANGED <<error, exports, savedPdf, isGeneratingPdf, requestedPageCount,
                      proxy, draft, pre>>

\* After the cover (i = 0) or page i has been attached: request the next page
\* image, or leave the loop and commit.
GenerationContinue(inProgressStory, finalPages, i, op) ==
  LET tmpl == pipe.storyTemplate IN
  IF i < Len(tmpl.pages)
  THEN /\ story' = [inProgressStory EXCEPT !.pages = finalPages]
       /\ loadingMessage' = "page" \o ToString(i + 1)
       /\ calls' = Append(calls, "page" \o ToString(i + 1))
       /\ pipe' = [kind |-> "generate", stage |-> "page", artStyle |-> pipe.artStyle,
                   storyTemplate |-> tmpl, inProgressStory |-> inProgressStory,
                   finalPages |-> finalPages, i |-> i,
                   prompt |-> PagePrompt(tmpl.pages[i + 1].imagePrompt, pipe.artStyle,
                                         tmpl.characterDescription)]
       /\ lastOp' = op
       /\ UNCHANGED <<appState, storyHistory, error, viewer, exports, savedPdf,
                      isGeneratingPdf, requestedPageCount, proxy, draft, genStory,
                      pre>>
  ELSE /\ GenerationCommit([inProgressStory EXCEPT !.pages = finalPages])
       /\ UNCHANGED <<error, exports, savedPdf, isGeneratingPdf, requestedPageCount,
                      proxy, draft, pre>>

GenCoverOk ==
  /\ pipe.kind = "generate" /\ pipe.stage = "cover"
  /\ LET coverImageUrl == DataUrl(RenderImage(pipe.prompt))
         inProgressStory ==
           [pipe.storyTemplate EXCEPT !.coverImageUrl = coverImageUrl, !.pages = <<>>]
     IN GenerationContinue(inProgressStory, <<>>, 0, "generateCoverOk")

GenCoverFail ==
  /\ pipe.kind = "generate" /\ pipe.stage = "cover"
  /\ \E m \in ImageCallErrors : GenerationFailed(m, "generateCoverFail")

\* Mutant of GenPageOk: the completed page is put in front of the earlier ones.
GenPageOk_Prepends ==
  /\ pipe.kind = "generate" /\ pipe.stage = "page"
  /\ LET page == pipe.storyTemplate.pages[pipe.i + 1]
         imageUrl == DataUrl(RenderImage(pipe.prompt))
         completedPage == [page EXCEPT !.imageUrl = imageUrl]
     IN GenerationContinue(pipe.inProgressStory,
                           <<completedPage>> \o pipe.finalPages,
                           pipe.i + 1, "generatePageOk")

GenPageOk ==
  /\ pipe.kind = "generate" /\ pipe.stage = "page"
  /\ LET page == pipe.storyTemplate.pages[pipe.i + 1]
         imageUrl == DataUrl(RenderImage(pipe.prompt))
         completedPage == [page EXCEPT !.imageUrl = imageUrl]
     IN GenerationContinue(pipe.inProgressStory,
                           Append(pipe.finalPages, completedPage),
                           pipe.i + 1, "generatePageOk")

\* Mutant of GenPageFail: a failed page image call is issued once more.
GenPageFail_RetriesOnce ==
  /\ pipe.kind = "generate" /\ pipe.stage = "page"
  /\ IF Cardinality({k \in 1..Len(calls) : calls[k] = Last(calls)}) = 1
     THEN /\ calls' = Append(calls, Last(calls))
          /\ lastOp' = "generatePageRetry"
          /\ UNCHANGED <<appState, story, storyHistory, error, loadingMessage,
                         pipe, viewer, exports, savedPdf, isGeneratingPdf,
                         requestedPageCount, proxy, draft, genStory, pre>>
     ELSE \E m \in ImageCallErrors : GenerationFailed(m, "generatePageFail")

GenPageFail ==
  /\ pipe.kind = "generate" /\ pipe.stage = "page"
  /\ \E m \in ImageCallErrors : GenerationFailed(m, "generatePageFail")

\* ------------------------------------------------------------------ BookViewer
NullPage == [null |-> TRUE]

\* const currentPage = isCover || isAfterword ? null : story.pages[currentPageIndex]
CurrentPage(s, currentPageIndex) ==
  IF currentPageIndex >= 0 /\ currentPageIndex < Len(s.pages)
  THEN s.pages[currentPageIndex + 1]
  ELSE NullPage

IsCover == viewer.currentPageIndex = -1
IsAfterword == viewer.currentPageIndex = Len(story.pages)

\* useEffect(..., [currentPageIndex, stop, currentPage]) after a render in which
\* the viewer state became `v` and the story prop `s` (dependencies are compared
\* by value here).
ViewerEffect(v, s) ==
  LET page == CurrentPage(s, v.currentPageIndex) IN
  IF v.currentPageIndex # viewer.currentPageIndex
     \/ page # CurrentPage(story, viewer.currentPageIndex)
  THEN [v EXCEPT !.editText = IF page # NullPage THEN page.text ELSE @,
                 !.isEditingText = FALSE]
  ELSE v

\* A step of the viewer alone: App's state, the pipelines and the record of the
\* latest App-level step stay as they are.
ViewerOnly ==
  UNCHANGED <<appState, story, storyHistory, error, loadingMessage, pipe,
              calls, exports, savedPdf, isGeneratingPdf, requestedPageCount,
              proxy, draft, genStory, pre, lastOp>>

handleNextPage ==
  /\ ViewerMounted
  /\ viewer.currentPageIndex < Len(story.pages)
  /\ viewer' = ViewerEffect([viewer EXCEPT !.currentPageIndex = @ + 1], story)
  /\ ViewerOnly

handlePrevPage ==
  /\ ViewerMounted
  /\ viewer.currentPageIndex > -1
  /\ viewer' = ViewerEffect([viewer EXCEPT !.currentPageIndex = @ - 1], story)
  /\ ViewerOnly

\* The "AIで修正" button: disabled on the afterword.
ToggleEditPanel ==
  /\ ViewerMounted
  /\ ~IsAfterword
  /\ viewer' = [viewer EXCEPT !.showEditPanel = ~@]
  /\ ViewerOnly

\* The instruction textarea, rendered when showEditPanel && !isAfterword.
TypeInstruction ==
  /\ ViewerMounted
  /\ viewer.showEditPanel /\ ~IsAfterword
  /\ \E t \in Instructions \ {viewer.editInstruction} :
       viewer' = [viewer EXCEPT !.editInstruction = t]
  /\ ViewerOnly

\* The "テキスト編集" button: shown while not editing, disabled on cover/afterword.
StartTextEdit ==
  /\ ViewerMounted
  /\ ~viewer.isEditingText
  /\ ~IsCover /\ ~IsAfterword
  /\ viewer' = [viewer EXCEPT !.isEditingText = TRUE]
  /\ ViewerOnly

\* The page textarea, rendered when currentPage && isEditingText.
TypeEditText ==
  /\ ViewerMounted
  /\ viewer.isEditingText
  /\ CurrentPage(story, viewer.currentPageIndex) # NullPage
  /\ \E t \in EditTexts \ {viewer.editText} :
       viewer' = [viewer EXCEPT !.editText = t]
  /\ ViewerOnly

\* ------------------------------------------------------------ revision history
\* handleTextEdit, on the `story` of the render it closes over.
handleTextEdit(s, pageIndex, newText) ==
  IF s = NullStory THEN s
  ELSE [s EXCEPT !.pages[pageIndex + 1].text = newText]

\* handleTextEditSave: setStoryHistory(prev => [...prev, story]) with the
\* `story` of the render it closes over.
handleTextEditSave(s, prev) ==
  IF s # NullStory THEN Append(prev, s) ELSE prev

\* BookViewer.handleSaveTextEdit: onTextEdit and onTextEditSave are the props
\* of one render, so both see the same `story`.
handleSaveTextEdit ==
  /\ ViewerMounted
  /\ viewer.isEditingText
  /\ Len(storyHistory) < MaxHistory
  /\ pre' = Snapshot(viewer.currentPageIndex)
  /\ IF CurrentPage(story, viewer.currentPageIndex) # NullPage
     THEN LET newStory == handleTextEdit(story, viewer.currentPageIndex,
                                         viewer.editText)
          IN /\ story' = newStory
             /\ storyHistory' = handleTextEditSave(story, storyHistory)
             /\ viewer' = ViewerEffect([viewer EXCEPT !.isEditingText = FALSE],
                                       newStory)
     ELSE UNCHANGED <<story, storyHistory, viewer>>
  /\ lastOp' = "saveTextEdit"
  /\ calls' = <<>>
  /\ savedPdf' = NoPdf
  /\ UNCHANGED <<appState, error, loadingMessage, pipe, exports,
                 isGeneratingPdf, requestedPageCount, proxy, draft, genStory>>

\* canUndo={storyHistory.length > 1}
canUndo(history) == Len(history) > 1

\* Mutant of handleUndo: the guard is `length > 0`.
handleUndo_OffByOne(s, history) ==
  IF Len(history) > 0
  THEN [story |-> IF Len(history) > 1 THEN history[Len(history) - 1] ELSE NullStory,
        storyHistory |-> Front(history)]
  ELSE [story |-> s, storyHistory |-> history]

\* Mutant of handleUndo: shift() instead of pop().
handleUndo_Shift(s, history) ==
  IF Len(history) > 1
  THEN [story |-> Last(history), storyHistory |-> Tail(history)]
  ELSE [story |-> s, storyHistory |-> history]

\* handleUndo, as the pair it leaves in story / storyHistory.
handleUndo(s, history) ==
  IF Len(history) > 1
  THEN [story |-> Front(history)[Len(history) - 1], storyHistory |-> Front(history)]
  ELSE [story |-> s, storyHistory |-> history]

\* The "元に戻す" button: disabled={!canUndo}.
Undo ==
  /\ ViewerMounted
  /\ canUndo(storyHistory)
  /\ LET r == handleUndo(story, storyHistory) IN
       /\ story' = r.story
       /\ storyHistory' = r.storyHistory
       /\ viewer' = ViewerEffect(viewer, r.story)
  /\ lastOp' = "undo"
  /\ pre' = NoPre
  /\ calls' = <<>>
  /\ savedPdf' = NoPdf
  /\ UNCHANGED <<appState, error, loadingMessage, pipe, exports,
                 isGeneratingPdf, requestedPageCount, proxy, draft, genStory>>

\* The BookViewer instance goes away: its state is dropped, and the export runs
\* it started keep going without a component to report to.
Unmount(jobs) ==
  [j \in 1..Len(jobs) |->
     IF "mounted" \in DOMAIN jobs[j] THEN [jobs[j] EXCEPT !.mounted = FALSE]
     ELSE jobs[j]]

\* Mutant of handleRestart: setStoryHistory([]) is left out.
handleRestart_KeepsHistory ==
  /\ ViewerMounted
  /\ appState' = "FORM"
  /\ story' = NullStory
  /\ error' = NoError
  /\ viewer' = ViewerInit
  /\ draft' = NullStory
  /\ genStory' = NullStory
  /\ lastOp' = "restart"
  /\ pre' = NoPre
  /\ exports' = Unmount(exports)
  /\ isGeneratingPdf' = FALSE
  /\ calls' = <<>>
  /\ savedPdf' = NoPdf
  /\ UNCHANGED <<storyHistory, loadingMessage, pipe, requestedPageCount, proxy>>

handleRestart ==
  /\ ViewerMounted
  /\ appState' = "FORM"
  /\ story' = NullStory
  /\ error' = NoError
  /\ storyHistory' = <<>>
  /\ viewer' = ViewerInit
  /\ draft' = NullStory
  /\ genStory' = NullStory
  /\ lastOp' = "restart"
  /\ pre' = NoPre
  /\ exports' = Unmount(exports)
  /\ isGeneratingPdf' = FALSE
  /\ calls' = <<>>
  /\ savedPdf' = NoPdf
  /\ UNCHANGED <<loadingMessage, pipe, requestedPageCount, proxy>>

\* ------------------------------------------------------------------ regeneration
\* handlePageRegeneration up to the first await inside regeneratePage.
handlePageRegeneration(pageIndex, instruction) ==
  /\ story # NullStory
  /\ appState' = "LOADING"
  /\ error' = NoError
  /\ pipe' = [kind |-> "page", stage |-> "text", story |-> story,
              pageIndex |-> pageIndex, instruction |-> instruction,
              storyContext |-> StorySummary(story, pageIndex)]
  /\ calls' = <<"text">>
  /\ lastOp' = "regeneratePage"

\* handleCoverRegeneration up to the first await inside regenerateCover.
handleCoverRegeneration(instruction) ==
  /\ story # NullStory
  /\ appState' = "LOADING"
  /\ error' = NoError
  /\ pipe' = [kind |-> "cover", stage |-> "text", story |-> story,
              instruction |-> instruction]
  /\ calls' = <<"text">>
  /\ lastOp' = "regenerateCover"

\* Mutant of handleRegenSubmit: the instruction is passed on untrimmed and
\* unchecked.
handleRegenSubmit_NoTrim ==
  /\ ViewerMounted
  /\ viewer.showEditPanel /\ ~IsAfterword
  /\ viewer.editInstruction # ""
  /\ Len(storyHistory) < MaxHistory
  /\ IF IsCover
     THEN handleCoverRegeneration(viewer.editInstruction)
     ELSE handlePageRegeneration(viewer.currentPageIndex, viewer.editInstruction)
  /\ pre' = Snapshot(viewer.currentPageIndex)
  /\ viewer' = ViewerInit
  /\ exports' = Unmount(exports)
  /\ isGeneratingPdf' = FALSE
  /\ savedPdf' = NoPdf
  /\ UNCHANGED <<story, storyHistory, loadingMessage,
                 requestedPageCount, proxy, draft, genStory>>

\* BookViewer.handleRegenSubmit: the form is rendered when showEditPanel &&
\* !isAfterword; its textarea is `required`, so the browser submits no empty value.
handleRegenSubmit ==
  /\ ViewerMounted
  /\ viewer.showEditPanel /\ ~IsAfterword
  /\ viewer.editInstruction # ""
  /\ Len(storyHistory) < MaxHistory
  /\ IF Trim(viewer.editInstruction) = ""
     THEN UNCHANGED vars
     ELSE /\ IF IsCover
             THEN handleCoverRegeneration(viewer.editInstruction)
             ELSE handlePageRegeneration(viewer.currentPageIndex,
                                         viewer.editInstruction)
          /\ pre' = Snapshot(viewer.currentPageIndex)
          /\ viewer' = ViewerInit
          /\ exports' = Unmount(exports)
          /\ isGeneratingPdf' = FALSE
          /\ savedPdf' = NoPdf
          /\ UNCHANGED <<story, storyHistory, loadingMessage,
                         requestedPageCount, proxy, draft, genStory>>

\* The catch and finally blocks of handlePageRegeneration / handleCoverRegeneration.
RegenerationFailed(message, op) ==
  /\ error' = ErrorText(message, "regeneration failed")
  /\ appState' = "PREVIEW"
  /\ pipe' = Idle
  /\ viewer' = ViewerInit
  /\ lastOp' = op
  /\ UNCHANGED <<story, storyHistory, loadingMessage, exports, savedPdf,
                 isGeneratingPdf, calls, requestedPageCount, proxy, draft,
                 genStory, pre>>

\* The statements after the await of regeneratePage / regenerateCover, and finally.
RegenerationCommit(newStoryState, op) ==
  /\ story' = newStoryState
  /\ storyHistory' = Append(storyHistory, newStoryState)
  /\ appState' = "PREVIEW"
  /\ pipe' = Idle
  /\ viewer' = ViewerInit
  /\ lastOp' = op
  /\ UNCHANGED <<error, loadingMessage, exports, savedPdf, isGeneratingPdf,
                 calls, requestedPageCount, proxy, draft, genStory, pre>>

\* regeneratePage: the text call settled with {new_text, new_image_prompt}.
RegenPageTextOk ==
  /\ pipe.kind = "page" /\ pipe.stage = "text"
  /\ \E newText \in NewTexts, newImagePrompt \in NewPrompts :
       pipe' = [kind |-> "page", stage |-> "image", story |-> pipe.story,
                pageIndex |-> pipe.pageIndex, newText |-> newText,
                prompt |-> PagePrompt(newImagePrompt, pipe.story.artStyle,
                                      pipe.story.characterDescription)]
  /\ calls' = Append(calls, "image")
  /\ lastOp' = "regeneratePageTextOk"
  /\ UNCHANGED <<appState, story, storyHistory, error, loadingMessage, viewer,
                 exports, savedPdf, isGeneratingPdf, requestedPageCount, proxy,
                 draft, genStory, pre>>

RegenPageTextFail ==
  /\ pipe.kind = "page" /\ pipe.stage = "text"
  /\ \E m \in TextCallErrors : RegenerationFailed(m, "regeneratePageTextFail")

\* Mutant of UpdatedPageStory: the new text is written to every page.
UpdatedPageStory_AllPages(s, pageIndex, newText, newImageUrl) ==
  [s EXCEPT !.pages = [k \in 1..Len(s.pages) |->
                         IF k = pageIndex + 1
                         THEN [s.pages[k] EXCEPT !.text = newText,
                                                 !.imageUrl = newImageUrl]
                         ELSE [s.pages[k] EXCEPT !.text = newText]]]

\* const updatedPages = [...story.pages]; updatedPages[pageIndex] = {...}
UpdatedPageStory(s, pageIndex, newText, newImageUrl) ==
  [s EXCEPT !.pages[pageIndex + 1].text = newText,
            !.pages[pageIndex + 1].imageUrl = newImageUrl]

RegenPageImageOk ==
  /\ pipe.kind = "page" /\ pipe.stage = "image"
  /\ RegenerationCommit(UpdatedPageStory(pipe.story, pipe.pageIndex, pipe.newText,
                                         DataUrl(RenderImage(pipe.prompt))),
                        "regeneratePageDone")

\* Mutant of RegenPageImageFail: the catch block keeps the text already received.
RegenPageImageFail_KeepsNewText ==
  /\ pipe.kind = "page" /\ pipe.stage = "image"
  /\ \E m \in ImageCallErrors : error' = ErrorText(m, "regeneration failed")
  /\ story' = [pipe.story EXCEPT !.pages[pipe.pageIndex + 1].text = pipe.newText]
  /\ storyHistory' = Append(storyHistory, story')
  /\ appState' = "PREVIEW"
  /\ pipe' = Idle
  /\ viewer' = ViewerInit
  /\ lastOp' = "regeneratePageImageFail"
  /\ UNCHANGED <<loadingMessage, exports, savedPdf, isGeneratingPdf,
                 calls, requestedPageCount, proxy, draft, genStory, pre>>

RegenPageImageFail ==
  /\ pipe.kind = "page" /\ pipe.stage = "image"
  /\ \E m \in ImageCallErrors : RegenerationFailed(m, "regeneratePageImageFail")

\* regenerateCover: the text call settled with {new_title, new_image_prompt}.
RegenCoverTextOk ==
  /\ pipe.kind = "cover" /\ pipe.stage = "text"
  /\ \E newTitle \in NewTitles, newImagePrompt \in NewPrompts :
       pipe' = [kind |-> "cover", stage |-> "image", story |-> pipe.story,
                newTitle |-> newTitle,
                prompt |-> RegenCoverPrompt(newTitle, pipe.story.characterDescription,
                                            pipe.story.artStyle, newImagePrompt)]
  /\ calls' = Append(calls, "image")
  /\ lastOp' = "regenerateCoverTextOk"
  /\ UNCHANGED <<appState, story, storyHistory, error, loadingMessage, viewer,
                 exports, savedPdf, isGeneratingPdf, requestedPageCount, proxy,
                 draft, genStory, pre>>

RegenCoverTextFail ==
  /\ pipe.kind = "cover" /\ pipe.stage = "text"
  /\ \E m \in TextCallErrors : RegenerationFailed(m, "regenerateCoverTextFail")

\* Mutant of UpdatedCoverStory: the regeneration answer also overwrites the
\* character description.
UpdatedCoverStory_Drift(s, newTitle, newCoverImageUrl) ==
  [s EXCEPT !.title = newTitle, !.coverImageUrl = newCoverImageUrl,
            !.characterDescription = newTitle]

\* { ...story, title: newTitle, coverImageUrl: newCoverImageUrl }
UpdatedCoverStory(s, newTitle, newCoverImageUrl) ==
  [s EXCEPT !.title = newTitle, !.coverImageUrl = newCoverImageUrl]

RegenCoverImageOk ==
  /\ pipe.kind = "cover" /\ pipe.stage = "image"
  /\ RegenerationCommit(UpdatedCoverStory(pipe.story, pipe.newTitle,
                                          DataUrl(RenderImage(pipe.prompt))),
                        "regenerateCoverDone")

RegenCoverImageFail ==
  /\ pipe.kind = "cover" /\ pipe.stage = "image"
  /\ \E m \in ImageCallErrors : RegenerationFailed(m, "regenerateCoverImageFail")

\* ------------------------------------------------------------------ PDF export
\* document.querySelectorAll('.pdf-page') in document order: the page shown in
\* the book display, then the hidden cover, pages and afterword.
PdfPageElements(s, currentPageIndex) ==
  <<IF currentPageIndex = -1 THEN "cover"
    ELSE IF currentPageIndex = Len(s.pages) THEN "afterword"
    ELSE "page" \o ToString(currentPageIndex + 1)>>
  \o <<"cover">>
  \o [k \in 1..Len(s.pages) |-> "page" \o ToString(k)]
  \o <<"afterword">>

\* BookViewer.handleDownloadPdf up to the first await of html2canvas. A run
\* keeps the elements it queried, its loop index and the pages added so far.
handleDownloadPdf ==
  /\ ViewerMounted
  /\ Len(exports) < MaxExports
  /\ exports' = Append(exports,
                       [pageElements |-> PdfPageElements(story, viewer.currentPageIndex),
                        i |-> 0, pdf |-> <<>>])
  /\ savedPdf' = NoPdf
  /\ UNCHANGED <<appState, story, storyHistory, error, loadingMessage, pipe,
                 calls, viewer, isGeneratingPdf, requestedPageCount, proxy,
                 draft, genStory, pre, lastOp>>

RemoveAt(s, j) == SubSeq(s, 1, j - 1) \o SubSeq(s, j + 1, Len(s))

\* html2canvas resolved for element i: add it to the document; after the last
\* element pdf.save() runs in the same continuation and the handler returns.
ExportCaptureOk ==
  /\ \E j \in 1..Len(exports) :
       LET job == exports[j]
           pdf == Append(job.pdf, job.pageElements[job.i + 1])
       IN IF job.i + 1 < Len(job.pageElements)
          THEN /\ exports' = [exports EXCEPT ![j] = [job EXCEPT !.i = @ + 1,
                                                               !.pdf = pdf]]
               /\ UNCHANGED savedPdf
          ELSE /\ exports' = RemoveAt(exports, j)
               /\ savedPdf' = [status |-> "saved", document |-> pdf]
  /\ UNCHANGED <<appState, story, storyHistory, error, loadingMessage, pipe,
                 calls, viewer, isGeneratingPdf, requestedPageCount, proxy,
                 draft, genStory, pre, lastOp>>

\* html2canvas rejected: nothing catches it, the handler ends without pdf.save().
ExportCaptureFail ==
  /\ \E j \in 1..Len(exports) : exports' = RemoveAt(exports, j)
  /\ savedPdf' = [status |-> "abandoned"]
  /\ UNCHANGED <<appState, story, storyHistory, error, loadingMessage, pipe,
                 calls, viewer, isGeneratingPdf, requestedPageCount, proxy,
                 draft, genStory, pre, lastOp>>

Next ==
  \/ \E a \in ArtStyles : handleSubmit(a, DefaultPageCount)
  \/ GenTextOk \/ GenTextFail
  \/ GenCoverOk \/ GenCoverFail
  \/ GenPageOk \/ GenPageFail
  \/ handleNextPage \/ handlePrevPage
  \/ ToggleEditPanel \/ TypeInstruction
  \/ StartTextEdit \/ TypeEditText \/ handleSaveTextEdit
  \/ Undo \/ handleRestart
  \/ handleRegenSubmit
  \/ RegenPageTextOk \/ RegenPageTextFail
  \/ RegenPageImageOk \/ RegenPageImageFail
  \/ RegenCoverTextOk \/ RegenCoverTextFail
  \/ RegenCoverImageOk \/ RegenCoverImageFail

\* App and BookViewer without the PDF export, which writes no App state.
Spec == Init /\ [][Next]_vars

\* The same program with the PDF export running beside it.
NextExport ==
  \/ Next
  \/ handleDownloadPdf
  \/ ExportCaptureOk
  \/ ExportCaptureFail

SpecExport == Init /\ [][NextExport]_vars

\* ------------------------------------- PDF export of the earlier BookViewer
\* The BookViewer revision kept in components/ApiKeySetup.tsx: it has the
\* isGeneratingPdf state, renders #pdf-render-container only while that is
\* set, and starts the capture loop from a timer.
\* '#pdf-render-container .pdf-page' in document order: cover, pages, afterword.
RenderContainerElements(s) ==
  <<"cover">> \o [k \in 1..Len(s.pages) |-> "page" \o ToString(k)]
  \o <<"afterword">>

IsLegacyJob(job) == "mounted" \in DOMAIN job

\* The jsPDF document as the sequence of its pages, each holding the element
\* drawn on it or nothing. new jsPDF(...) starts with one empty page;
\* addPage appends an empty page and makes it current; addImage draws on the
\* current (last) page.
BlankPage == "blank"
NewDocument == <<BlankPage>>
addPage(pdf) == Append(pdf, BlankPage)
addImage(pdf, imgData) == [pdf EXCEPT ![Len(pdf)] = imgData]

\* setIsGeneratingPdf(false) by a run: it reaches the state of the component
\* that started the run only while that component is mounted.
ClearedBy(job) == IF job.mounted THEN FALSE ELSE isGeneratingPdf

\* handleDownloadPdf: set the flag and arm the timer. The button is disabled
\* while isGeneratingPdf.
LegacyDownloadPdf ==
  /\ ViewerMounted
  /\ ~isGeneratingPdf
  /\ Len(exports) < MaxExports
  /\ isGeneratingPdf' = TRUE
  /\ exports' = Append(exports, [mounted |-> TRUE, stage |-> "timer"])
  /\ savedPdf' = NoPdf
  /\ UNCHANGED <<appState, story, storyHistory, error, loadingMessage, pipe,
                 calls, viewer, requestedPageCount, proxy, draft, genStory, pre,
                 lastOp>>

\* The timer callback up to its first await: query the container's pages;
\* with none, clear the flag and return.
LegacyTimer ==
  /\ \E j \in 1..Len(exports) :
       LET job == exports[j]
           pageElements == IF ViewerMounted /\ isGeneratingPdf
                           THEN RenderContainerElements(story) ELSE <<>>
       IN /\ IsLegacyJob(job) /\ job.stage = "timer"
          /\ IF pageElements = <<>>
             THEN /\ exports' = RemoveAt(exports, j)
                  /\ isGeneratingPdf' = ClearedBy(job)
                  /\ savedPdf' = [status |-> "abandoned"]
             ELSE /\ exports' = [exports EXCEPT ![j] =
                                   [mounted |-> job.mounted, stage |-> "capture",
                                    pageElements |-> pageElements, i |-> 0,
                                    pdf |-> NewDocument]]
                  /\ UNCHANGED <<isGeneratingPdf, savedPdf>>
  /\ UNCHANGED <<appState, story, storyHistory, error, loadingMessage, pipe,
                 calls, viewer, requestedPageCount, proxy, draft, genStory, pre,
                 lastOp>>

\* The timer callback throws before the loop: window.jspdf is read and jsPDF
\* constructed outside any try block, so the callback ends there and the
\* statements after it, setIsGeneratingPdf(false) among them, do not run.
LegacyTimerThrows ==
  /\ \E j \in 1..Len(exports) :
       /\ IsLegacyJob(exports[j]) /\ exports[j].stage = "timer"
       /\ exports' = RemoveAt(exports, j)
       /\ savedPdf' = [status |-> "abandoned"]
       /\ UNCHANGED isGeneratingPdf
  /\ UNCHANGED <<appState, story, storyHistory, error, loadingMessage, pipe,
                 calls, viewer, requestedPageCount, proxy, draft, genStory, pre,
                 lastOp>>

\* One iteration of the capture loop has ended with the document `pdf`: go on
\* with the next element, or save and clear the flag after the last.
LegacyCaptured(j, pdf) ==
  LET job == exports[j] IN
  IF job.i + 1 < Len(job.pageElements)
  THEN /\ exports' = [exports EXCEPT ![j] = [job EXCEPT !.i = @ + 1, !.pdf = pdf]]
       /\ UNCHANGED <<isGeneratingPdf, savedPdf>>
  ELSE /\ exports' = RemoveAt(exports, j)
       /\ savedPdf' = [status |-> "saved", document |-> pdf]
       /\ isGeneratingPdf' = ClearedBy(job)

\* html2canvas resolved: if (i > 0) pdf.addPage(...); pdf.addImage(...).
LegacyCaptureOk ==
  /\ \E j \in 1..Len(exports) :
       LET job == exports[j] IN
       /\ IsLegacyJob(job) /\ job.stage = "capture"
       /\ LegacyCaptured(j, addImage(IF job.i > 0 THEN addPage(job.pdf) ELSE job.pdf,
                                     job.pageElements[job.i + 1]))
  /\ UNCHANGED <<appState, story, storyHistory, error, loadingMessage, pipe,
                 calls, viewer, requestedPageCount, proxy, draft, genStory, pre,
                 lastOp>>

\* html2canvas rejected: the catch block logs it and the loop goes on.
LegacyCaptureFail ==
  /\ \E j \in 1..Len(exports) :
       /\ IsLegacyJob(exports[j]) /\ exports[j].stage = "capture"
       /\ LegacyCaptured(j, exports[j].pdf)
  /\ UNCHANGED <<appState, story, storyHistory, error, loadingMessage, pipe,
                 calls, viewer, requestedPageCount, proxy, draft, genStory, pre,
                 lastOp>>

\* App with the export of that BookViewer revision running beside it.
NextLegacyExport ==
  \/ Next
  \/ LegacyDownloadPdf
  \/ LegacyTimer
  \/ LegacyTimerThrows
  \/ LegacyCaptureOk
  \/ LegacyCaptureFail

SpecLegacyExport == Init /\ [][NextLegacyExport]_vars

\* ------------------------------------------------- the form and the generation
\* The page counts the form offers: [4, 6, 8].map(count => <SelectionCard .../>)
PageCounts == {4, 6, 8}
\* Page counts of the drafts the text call answers with here (the schema's
\* `pages` array has no length constraint; its description asks for 8).
DraftPageCounts == {4, 8}

\* A form whose page count the user picks, and the generation it starts.
NextForm ==
  \/ \E a \in ArtStyles, n \in PageCounts : handleSubmit(a, n)
  \/ GenTextSettled(DraftPageCounts) \/ GenTextFail
  \/ GenCoverOk \/ GenCoverFail
  \/ GenPageOk \/ GenPageFail

SpecForm == Init /\ [][NextForm]_vars

\* ------------------------------------------- drafts and their page numbers
\* page_number is an INTEGER chosen by the text service; the schema puts no
\* constraint on it. Values a page of a draft may declare here.
DeclaredPageNumbers == {1, 2}

\* The draft whose k-th page declares page_number numbers[k]:
\* id: page.page_number.
NumberedTemplate(numbers, artStyle) ==
  [StoryTemplate(Len(numbers), artStyle) EXCEPT
     !.pages = [k \in 1..Len(numbers) |-> [DraftPage(k) EXCEPT !.id = numbers[k]]]]

PageNumberings == UNION {[1..n -> DeclaredPageNumbers] : n \in 1..MaxPages}

\* The text call settled with a draft whose pages declare any page numbers.
GenTextNumbered ==
  /\ pipe.kind = "generate" /\ pipe.stage = "text"
  /\ \E numbers \in PageNumberings :
       LET storyTemplate == NumberedTemplate(numbers, pipe.artStyle) IN
       /\ draft' = storyTemplate
       /\ pipe' = [kind |-> "generate", stage |-> "cover", artStyle |-> pipe.artStyle,
                   storyTemplate |-> storyTemplate,
                   prompt |-> CoverPrompt(storyTemplate.title,
                                          storyTemplate.characterDescription,
                                          pipe.artStyle)]
  /\ loadingMessage' = "cover"
  /\ calls' = Append(calls, "cover")
  /\ lastOp' = "generateTextOk"
  /\ UNCHANGED <<appState, story, storyHistory, error, viewer, exports,
                 savedPdf, isGeneratingPdf, requestedPageCount, proxy, genStory,
                 pre>>

\* App and BookViewer on the drafts of a text service that numbers pages freely.
NextNumbered ==
  \/ Next
  \/ GenTextNumbered

SpecNumbered == Init /\ [][NextNumbered]_vars

\* ------------------------------------------- generation with parallel images
\* The service revision whose generateStoryAndImages issues the cover call and
\* all page calls at once and awaits Promise.all, under the App revision that
\* awaits the whole function (src/unnamed/part_005, part_006).
Pending == [status |-> "pending"]
Failed == [status |-> "failed"]
Fulfilled(response) == [status |-> "ok", response |-> response]

\* The prompt of call k: 0 is the cover, k >= 1 is page k.
ParallelPrompt(storyData, artStyle, k) ==
  IF k = 0
  THEN CoverPrompt(storyData.title, storyData.characterDescription, artStyle)
  ELSE PagePrompt(storyData.pages[k].imagePrompt, artStyle,
                  storyData.characterDescription)

\* finalStory: Promise.all hands the results back in the order of the promises
\* it was given, the cover first.
ParallelFinalStory(storyData, artStyle, results) ==
  [title |-> storyData.title,
   coverImageUrl |-> DataUrl(results[0].response),
   characterDescription |-> storyData.characterDescription,
   artStyle |-> artStyle,
   pages |-> [k \in 1..Len(storyData.pages) |->
                [id |-> storyData.pages[k].id, text |-> storyData.pages[k].text,
                 imageUrl |-> DataUrl(results[k].response)]],
   afterword |-> storyData.afterword]

\* handleStoryGeneration of that App revision up to its await.
ParallelStart(artStyle) ==
  /\ FormMounted
  /\ pre' = Snapshot(-1)
  /\ appState' = "LOADING"
  /\ error' = NoError
  /\ story' = NullStory
  /\ storyHistory' = <<>>
  /\ pipe' = [kind |-> "parallel", stage |-> "text", artStyle |-> artStyle]
  /\ draft' = NullStory
  /\ genStory' = NullStory
  /\ calls' = <<"text">>
  /\ lastOp' = "generate"
  /\ UNCHANGED <<loadingMessage, viewer, exports, savedPdf, isGeneratingPdf,
                 requestedPageCount, proxy>>

\* The text call resolved: every image call is issued before any is awaited.
ParallelTextOk ==
  /\ pipe.kind = "parallel" /\ pipe.stage = "text"
  /\ \E n \in 1..MaxPages :
       LET storyData == StoryTemplate(n, pipe.artStyle) IN
       /\ draft' = storyData
       /\ pipe' = [kind |-> "parallel", stage |-> "images",
                   artStyle |-> pipe.artStyle, storyData |-> storyData,
                   results |-> [k \in 0..n |-> Pending]]
       /\ calls' = calls \o <<"cover">> \o [k \in 1..n |-> "page" \o ToString(k)]
  /\ lastOp' = "generateTextOk"
  /\ UNCHANGED <<appState, story, storyHistory, error, loadingMessage, viewer,
                 exports, savedPdf, isGeneratingPdf, requestedPageCount, proxy,
                 genStory, pre>>

ParallelTextFail ==
  /\ pipe.kind = "parallel" /\ pipe.stage = "text"
  /\ \E m \in TextCallErrors : GenerationFailed(m, "generateTextFail")

\* What the settlement of one call does once `results` holds it: Promise.all
\* resolves when the last call has resolved, and the App commits the story;
\* otherwise the function keeps waiting. After Promise.all has rejected, a
\* settlement changes nothing the App can see.
ParallelSettled(results) ==
  IF pipe.stage = "images" /\ \A j \in DOMAIN results : results[j].status = "ok"
  THEN LET newStory == ParallelFinalStory(pipe.storyData, pipe.artStyle, results) IN
       /\ story' = newStory
       /\ storyHistory' = <<newStory>>
       /\ appState' = "PREVIEW"
       /\ pipe' = Idle
       /\ viewer' = ViewerInit
       /\ genStory' = newStory
       /\ lastOp' = "generateDone"
       /\ UNCHANGED <<error, loadingMessage, exports, savedPdf, isGeneratingPdf,
                      calls, requestedPageCount, proxy, draft, pre>>
  ELSE /\ pipe' = [pipe EXCEPT !.results = results]
       /\ UNCHANGED <<appState, story, storyHistory, error, loadingMessage, viewer,
                      exports, savedPdf, isGeneratingPdf, calls,
                      requestedPageCount, proxy, draft, genStory, pre, lastOp>>

\* Mutant of ParallelImageOk: the responses are collected in the order in
\* which the calls complete.
ParallelImageOk_CompletionOrder ==
  /\ pipe.kind = "parallel" /\ pipe.stage \in {"images", "rejected"}
  /\ \E k \in DOMAIN pipe.results :
       LET slot == CHOOSE j \in DOMAIN pipe.results :
                     /\ pipe.results[j] = Pending
                     /\ \A l \in DOMAIN pipe.results :
                          pipe.results[l] = Pending => j <= l
       IN /\ pipe.results[k] = Pending
          /\ ParallelSettled([pipe.results EXCEPT ![slot] =
                Fulfilled(RenderImage(ParallelPrompt(pipe.storyData, pipe.artStyle, k)))])

\* One image call resolved, in any order.
ParallelImageOk ==
  /\ pipe.kind = "parallel" /\ pipe.stage \in {"images", "rejected"}
  /\ \E k \in DOMAIN pipe.results :
       /\ pipe.results[k] = Pending
       /\ ParallelSettled([pipe.results EXCEPT ![k] =
             Fulfilled(RenderImage(ParallelPrompt(pipe.storyData, pipe.artStyle, k)))])

\* One image call rejected: the first rejection rejects Promise.all,
\* generateStoryAndImages throws and the App's catch block runs; the calls
\* still outstanding settle later.
ParallelImageFail ==
  /\ pipe.kind = "parallel" /\ pipe.stage \in {"images", "rejected"}
  /\ \E k \in DOMAIN pipe.results :
       /\ pipe.results[k] = Pending
       /\ pipe' = [pipe EXCEPT !.results[k] = Failed, !.stage = "rejected"]
  /\ IF pipe.stage = "images"
     THEN /\ \E m \in ImageCallErrors : error' = ErrorText(m, "generation failed")
          /\ appState' = "FORM"
          /\ lastOp' = "generateImageFail"
     ELSE UNCHANGED <<error, appState, lastOp>>
  /\ UNCHANGED <<story, storyHistory, loadingMessage, viewer, exports, savedPdf,
                 isGeneratingPdf, calls, requestedPageCount, proxy, draft,
                 genStory, pre>>

NextParallel ==
  \/ \E a \in ArtStyles : ParallelStart(a)
  \/ ParallelTextOk \/ ParallelTextFail
  \/ ParallelImageOk \/ ParallelImageFail
  \/ handleNextPage \/ handlePrevPage
  \/ handleRestart

SpecParallel == Init /\ [][NextParallel]_vars

\* ------------------------------------------------------ the /api/generate proxy
\* A destructured field that the body does not have.
Undefined == "undefined"
\* Values of `endpoint` and `payload` in a JSON object body.
EndpointValues == {Undefined, "", "models/imagen:predict"}
PayloadValues == {Undefined, "null", "{instances}"}
\* !value for the values above.
Falsy(value) == value \in {Undefined, "", "null"}

\* Request bodies: text that is not JSON, and JSON null, number, array, object.
ProxyBodies ==
  {[json |-> FALSE]}
  \cup {[json |-> TRUE, type |-> t] : t \in {"null", "number", "array"}}
  \cup {[json |-> TRUE, type |-> "object", endpoint |-> e, payload |-> p] :
           e \in EndpointValues, p \in PayloadValues}

\* What the fetch to the upstream service would do if it were made.
UpstreamOutcomes ==
  {[kind |-> "ok"], [kind |-> "throw", message |-> "fetch failed"],
   [kind |-> "error", status |-> 429, message |-> "quota"],
   [kind |-> "error", status |-> 500, message |-> "<html>"]}

ProxyInvocations ==
  [method : {"GET", "POST"}, body : ProxyBodies, apiKey : BOOLEAN,
   upstream : UpstreamOutcomes]

NoResponse == [status |-> 0]
Respond(status, message, fetches) ==
  [status |-> status, message |-> message, fetches |-> fetches]

\* const { endpoint, payload } = body: the fields of an object, undefined for
\* the fields a number or an array does not have; null cannot be destructured.
BodyField(body, field) ==
  IF body.type = "object" THEN body[field] ELSE Undefined

\* handler(request): the response, with the number of fetches it made.
handler(inv) ==
  IF inv.method # "POST" THEN Respond(405, "Method Not Allowed", 0)
  ELSE IF ~inv.body.json
  THEN Respond(400, "Invalid or empty JSON body provided.", 0)
  ELSE IF inv.body.type = "null"
  THEN Respond(500, "TypeError", 0)
  ELSE IF Falsy(BodyField(inv.body, "endpoint")) \/ Falsy(BodyField(inv.body, "payload"))
  THEN Respond(400, "Request body is missing endpoint or payload.", 0)
  ELSE IF ~inv.apiKey
  THEN Respond(500, "API key is not configured on the server.", 0)
  ELSE IF inv.upstream.kind = "throw" THEN Respond(500, inv.upstream.message, 1)
  ELSE IF inv.upstream.kind = "error"
  THEN Respond(inv.upstream.status, inv.upstream.message, 1)
  ELSE Respond(200, "data", 1)

\* callProxy on the response of the handler: response.ok is a 2xx status; on
\* any other it throws new Error(errorData.error?.message || 'API request
\* failed'), an Error whose only own datum is the message.
callProxy(response) ==
  IF response.status \in 200..299
  THEN [threw |-> FALSE, data |-> response.message]
  ELSE [threw |-> TRUE, error |-> [message |-> ProxyError(response.message)]]

InitProxy ==
  /\ appState = "FORM"
  /\ story = NullStory
  /\ storyHistory = <<>>
  /\ error = NoError
  /\ loadingMessage = NoMessage
  /\ pipe = Idle
  /\ viewer = ViewerInit
  /\ exports = <<>>
  /\ savedPdf = NoPdf
  /\ isGeneratingPdf = FALSE
  /\ calls = <<>>
  /\ requestedPageCount = DefaultPageCount
  /\ proxy \in {[request |-> inv, response |-> NoResponse] : inv \in ProxyInvocations}
  /\ draft = NullStory
  /\ genStory = NullStory
  /\ pre = NoPre
  /\ lastOp = "init"

\* The edge function answers the request it was given.
Handle ==
  /\ proxy.response = NoResponse
  /\ proxy' = [proxy EXCEPT !.response = handler(proxy.request)]
  /\ UNCHANGED <<appState, story, storyHistory, error, loadingMessage, pipe,
                 viewer, exports, savedPdf, isGeneratingPdf, calls,
                 requestedPageCount, draft, genStory, pre, lastOp>>

NextProxy == Handle

SpecProxy == InitProxy /\ [][NextProxy]_vars

\* ------------------------------------------------------- handleUndo on its own
\* The story a successful generation assembles from a template.
AssembledStory(tmpl) ==
  [tmpl EXCEPT
     !.coverImageUrl = DataUrl(RenderImage(CoverPrompt(tmpl.title,
                                                       tmpl.characterDescription,
                                                       tmpl.artStyle))),
     !.pages = [k \in 1..Len(tmpl.pages) |->
                  [tmpl.pages[k] EXCEPT
                     !.imageUrl = DataUrl(RenderImage(
                                    PagePrompt(tmpl.pages[k].imagePrompt, tmpl.artStyle,
                                               tmpl.characterDescription)))]]]

GeneratedStories ==
  {AssembledStory(StoryTemplate(n, a)) : n \in 1..MaxPages, a \in ArtStyles}

SampleStories ==
  GeneratedStories \cup {handleTextEdit(s, 0, t) : s \in GeneratedStories, t \in EditTexts}

SampleHistories ==
  UNION {[1..n -> SampleStories] : n \in 0..MaxHistory}

\* handleUndo called on any story / history pair, as often as wanted.
InitUndo ==
  /\ appState = "PREVIEW"
  /\ story \in SampleStories \cup {NullStory}
  /\ storyHistory \in SampleHistories
  /\ error = NoError
  /\ loadingMessage = NoMessage
  /\ pipe = Idle
  /\ viewer = ViewerInit
  /\ exports = <<>>
  /\ savedPdf = NoPdf
  /\ isGeneratingPdf = FALSE
  /\ calls = <<>>
  /\ requestedPageCount = DefaultPageCount
  /\ proxy = NoInvocation
  /\ draft = NullStory
  /\ genStory = NullStory
  /\ pre = NoPre
  /\ lastOp = "init"

CallHandleUndo ==
  /\ LET r == handleUndo(story, storyHistory) IN
       /\ story' = r.story
       /\ storyHistory' = r.storyHistory
  /\ pre' = Snapshot(-1)
  /\ lastOp' = "handleUndo"
  /\ UNCHANGED <<appState, error, loadingMessage, pipe, calls, viewer, exports,
                 savedPdf, isGeneratingPdf, requestedPageCount, proxy, draft,
                 genStory>>

NextUndo == CallHandleUndo

SpecUndo == InitUndo /\ [][NextUndo]_vars

\* ==================================================================== claims
CommitOps == {"regeneratePageDone", "regenerateCoverDone", "saveTextEdit"}
GenerationFailOps == {"generateTextFail", "generateCoverFail", "generatePageFail"}

\* C1: page regeneration is atomic. While a page-regeneration pipeline is in
\* flight, and after its image call failed following a successful text call,
\* story and storyHistory are what they were when the pipeline started; the
\* new text never reaches story or storyHistory without the new image.
C1_PageRegenAtomic ==
  /\ pipe.kind = "page" =>
       /\ story = pre.story
       /\ storyHistory = pre.storyHistory
  /\ lastOp = "regeneratePageImageFail" =>
       /\ story = pre.story
       /\ storyHistory = pre.storyHistory

\* The image call of a page regeneration has failed after its text call succeeded.
C1_Witness ==
  /\ lastOp = "regeneratePageImageFail"
  /\ appState = "PREVIEW"
  /\ error # NoError
  /\ story = pre.story

\* C2: whenever the viewer is shown and no pipeline is in flight, the current
\* story is the last element of the history.
C2_CurrentIsLast ==
  (appState = "PREVIEW" /\ pipe = Idle) =>
     /\ storyHistory # <<>>
     /\ story = Last(storyHistory)

\* C3: commit/undo round trip. An undo that follows a commit (page regeneration,
\* cover regeneration or text-edit save) makes the story that was current before
\* the commit current again and restores the history of before the commit.
C3_CommitUndoRoundTrip ==
  [][(lastOp \in CommitOps /\ lastOp' = "undo") =>
       (story' = pre.story /\ storyHistory' = pre.storyHistory)]_vars

\* C4: a failed full generation leaves story and storyHistory as they were
\* before handleStoryGeneration was invoked, and ends in FORM.
C4_GenerationFailureRestores ==
  lastOp \in GenerationFailOps =>
     /\ appState = "FORM"
     /\ storyHistory = pre.storyHistory
     /\ story = pre.story

\* A story with a cover image and exactly the pages of draft `d`, each with an image.
CompleteStory(s, d) ==
  /\ s # NullStory
  /\ d # NullStory
  /\ s.coverImageUrl # ""
  /\ Len(s.pages) = Len(d.pages)
  /\ \A k \in 1..Len(s.pages) :
       /\ s.pages[k].id = d.pages[k].id
       /\ s.pages[k].imageUrl # ""

\* C5: every element of storyHistory is a complete story of the draft the text
\* call returned; the in-progress story of a generation is never in it.
C5_NoPartialCommitted ==
  /\ \A k \in 1..Len(storyHistory) : CompleteStory(storyHistory[k], draft)
  /\ (pipe.kind = "generate" => storyHistory = <<>>)

\* A generation that showed in-progress stories has committed, and a later
\* commit was added to the history.
C5_Witness ==
  /\ appState = "PREVIEW"
  /\ Len(storyHistory) >= 2
  /\ Len(draft.pages) = MaxPages
  /\ \A k \in 1..Len(storyHistory) : CompleteStory(storyHistory[k], draft)

\* C6: one busy gate. While an export is in flight no command changes story,
\* storyHistory or appState and no further export starts; while an App pipeline
\* is in flight no export starts.
C6_SingleBusyGate ==
  [][/\ exports # <<>> =>
          /\ story' = story
          /\ storyHistory' = storyHistory
          /\ appState' = appState
          /\ Len(exports') <= Len(exports)
     /\ pipe.kind # "none" => Len(exports') <= Len(exports)]_vars

\* C7: with at most one snapshot, handleUndo leaves story and storyHistory as
\* they are (and so does every further call).
C7_UndoNoOpAtBoundary ==
  (lastOp = "handleUndo" /\ ~canUndo(pre.storyHistory)) =>
     /\ story = pre.story
     /\ storyHistory = pre.storyHistory

\* handleUndo has been called on a story with exactly one snapshot and has left
\* the pair as it found it.
C7_Witness ==
  /\ lastOp = "handleUndo"
  /\ Len(pre.storyHistory) = 1
  /\ pre.story # NullStory
  /\ Snapshot(-1) = pre

\* C8: in PREVIEW the history is non-empty and its first element is the story
\* the latest successful full generation committed.
C8_FirstSnapshotKept ==
  appState = "PREVIEW" =>
     /\ genStory # NullStory
     /\ storyHistory # <<>>
     /\ storyHistory[1] = genStory

\* An undo has taken the history back to the snapshot of the generation.
C8_Witness ==
  /\ appState = "PREVIEW"
  /\ lastOp = "undo"
  /\ storyHistory = <<genStory>>

\* C9: the story a successful cover regeneration commits differs from the story
\* it was started from in title and coverImageUrl only.
C9_CoverRegenFrame ==
  lastOp = "regenerateCoverDone" =>
     /\ storyHistory = Append(pre.storyHistory, story)
     /\ story.characterDescription = pre.story.characterDescription
     /\ story.artStyle = pre.story.artStyle
     /\ story.pages = pre.story.pages
     /\ story.afterword = pre.story.afterword

\* A cover regeneration has committed a story with a new title and cover.
C9_Witness ==
  /\ lastOp = "regenerateCoverDone"
  /\ story.title # pre.story.title
  /\ story.coverImageUrl # pre.story.coverImageUrl

\* C10: the story a successful regeneration of page i commits differs from the
\* story it was started from in text and imageUrl of page i only.
C10_PageRegenFrame ==
  lastOp = "regeneratePageDone" =>
     /\ storyHistory = Append(pre.storyHistory, story)
     /\ story.title = pre.story.title
     /\ story.coverImageUrl = pre.story.coverImageUrl
     /\ story.characterDescription = pre.story.characterDescription
     /\ story.artStyle = pre.story.artStyle
     /\ story.afterword = pre.story.afterword
     /\ Len(story.pages) = Len(pre.story.pages)
     /\ pre.target \in 0..(Len(story.pages) - 1)
     /\ \A j \in 1..Len(story.pages) :
             IF j = pre.target + 1
             THEN /\ story.pages[j].id = pre.story.pages[j].id
                  /\ story.pages[j].imagePrompt = pre.story.pages[j].imagePrompt
             ELSE story.pages[j] = pre.story.pages[j]

\* A regeneration of the second page of a two-page story has committed.
C10_Witness ==
  /\ lastOp = "regeneratePageDone"
  /\ Len(story.pages) >= 2
  /\ pre.target = 1
  /\ story.pages[1] = pre.story.pages[1]
  /\ story.pages[2].text # pre.story.pages[2].text
  /\ story.pages[2].imageUrl # pre.story.pages[2].imageUrl

\* C11: a text-edit save appends exactly one snapshot, and that snapshot's
\* page i carries the text t that was saved; typing in the editor before the
\* save changes neither story nor storyHistory.
C11_TextEditSaveCommits ==
  [][/\ (/\ viewer.isEditingText
          /\ lastOp' = "saveTextEdit"
          /\ Len(storyHistory') > Len(storyHistory)) =>
            /\ storyHistory' = Append(storyHistory, Last(storyHistory'))
            /\ Last(storyHistory').pages[viewer.currentPageIndex + 1].text
                 = viewer.editText
     /\ (/\ viewer.isEditingText /\ viewer'.isEditingText
          /\ viewer'.editText # viewer.editText) =>
            /\ story' = story
            /\ storyHistory' = storyHistory]_vars

\* C12: a successful full generation commits a story with exactly the number
\* of pages the form requested.
C12_PageCountAsRequested ==
  lastOp = "generateDone" => Len(story.pages) = requestedPageCount

\* The logical pages of a book of n story pages: cover, page 1..n, afterword.
LogicalPages(n) ==
  <<"cover">> \o [k \in 1..n |-> "page" \o ToString(k)] \o <<"afterword">>

\* C14: an export whose captures all succeed saves a document of exactly
\* pages.length + 2 pages in the order cover, page 1..N, afterword, whichever
\* page the viewer showed when the export started.
C14_ExportPageCount ==
  savedPdf.status = "saved" =>
     \E n \in 1..MaxPages : savedPdf.document = LogicalPages(n)

\* C15: a failed capture does not abort the export: an export that has ended
\* has reached pdf.save().
C15_ExportSkipsFailedCapture ==
  (exports = <<>> /\ savedPdf # NoPdf) => savedPdf.status = "saved"

\* The calls a full generation of an n-page draft issues, in order.
ExpectedCalls(n) ==
  <<"text", "cover">> \o [k \in 1..n |-> "page" \o ToString(k)]

\* C16: within one full generation the text call is settled before the cover
\* image call is issued, the cover image is attached before any page image
\* call is issued, and page image calls are issued, and their images attached,
\* in ascending page order, one at a time.
C16_CallOrdering ==
  /\ (pipe.kind = "generate" /\ pipe.stage = "text") =>
        /\ calls = <<"text">>
        /\ draft = NullStory /\ story = NullStory
  /\ (pipe.kind = "generate" /\ pipe.stage = "cover") =>
        /\ calls = <<"text", "cover">>
        /\ draft # NullStory /\ story = NullStory
  /\ (pipe.kind = "generate" /\ pipe.stage = "page") =>
        /\ calls = SubSeq(ExpectedCalls(Len(draft.pages)), 1, pipe.i + 3)
        /\ story.coverImageUrl = AssembledStory(draft).coverImageUrl
        /\ story.pages = SubSeq(AssembledStory(draft).pages, 1, pipe.i)
  /\ lastOp = "generateDone" =>
        /\ calls = ExpectedCalls(Len(draft.pages))
        /\ story.pages = AssembledStory(draft).pages

\* The image of the first page is attached and the second page's is awaited.
C16_Witness ==
  /\ pipe.kind = "generate" /\ pipe.stage = "page"
  /\ pipe.i = 1
  /\ Len(story.pages) = 1
  /\ calls = <<"text", "cover", "page1", "page2">>

RegenerationFailOps ==
  {"regeneratePageTextFail", "regeneratePageImageFail",
   "regenerateCoverTextFail", "regenerateCoverImageFail"}

\* C17: no silent recovery. No upstream call is issued twice within one
\* pipeline; the call that failed is the last one issued and nothing is
\* awaited after it; a successful generation of an N-page draft has issued one
\* text call and N + 1 image calls and uses exactly the images they returned.
C17_NoSilentRecovery ==
  /\ \A j, k \in 1..Len(calls) : (calls[j] = calls[k]) => (j = k)
  /\ lastOp \in GenerationFailOps \cup RegenerationFailOps => pipe = Idle
  /\ lastOp = "generateTextFail" => calls = <<"text">>
  /\ lastOp = "generateCoverFail" => calls = <<"text", "cover">>
  /\ lastOp = "generatePageFail" =>
        calls = SubSeq(ExpectedCalls(Len(draft.pages)), 1, Len(story.pages) + 3)
  /\ lastOp \in {"regeneratePageTextFail", "regenerateCoverTextFail"} =>
        calls = <<"text">>
  /\ lastOp \in {"regeneratePageImageFail", "regenerateCoverImageFail",
                 "regeneratePageDone", "regenerateCoverDone"} =>
        calls = <<"text", "image">>
  /\ lastOp = "generateDone" =>
        /\ Cardinality({k \in 1..Len(calls) : calls[k] = "text"}) = 1
        /\ Cardinality({k \in 1..Len(calls) : calls[k] # "text"})
             = Len(draft.pages) + 1
        /\ story = AssembledStory(draft)

\* The image call of the second page has failed after the first was attached.
C17_Witness ==
  /\ lastOp = "generatePageFail"
  /\ pipe = Idle
  /\ Len(draft.pages) = 2
  /\ Len(story.pages) = 1
  /\ Len(calls) = 4

Contains(prompt, token) == \E k \in 1..Len(prompt) : prompt[k] = token

\* C19: every image prompt sent carries the character description and the art
\* style of the story being generated or regenerated; a page prompt is the
\* page-specific prompt, then the style, then the character description.
C19_PromptComposition ==
  /\ (pipe.kind = "generate" /\ pipe.stage = "cover") =>
        /\ Contains(pipe.prompt, draft.characterDescription)
        /\ Contains(pipe.prompt, pipe.artStyle)
  /\ (pipe.kind = "generate" /\ pipe.stage = "page") =>
        pipe.prompt = <<draft.pages[pipe.i + 1].imagePrompt, pipe.artStyle,
                        draft.characterDescription>>
  /\ (pipe.kind = "page" /\ pipe.stage = "image") =>
        /\ Len(pipe.prompt) = 3
        /\ pipe.prompt[1] \in NewPrompts
        /\ pipe.prompt[2] = pre.story.artStyle
        /\ pipe.prompt[3] = pre.story.characterDescription
  /\ (pipe.kind = "cover" /\ pipe.stage = "image") =>
        /\ Contains(pipe.prompt, pre.story.characterDescription)
        /\ Contains(pipe.prompt, pre.story.artStyle)

\* The image call of a page regeneration of an Anime story is awaited.
C19_Witness ==
  /\ pipe.kind = "page" /\ pipe.stage = "image"
  /\ pre.story.artStyle = "Anime"
  /\ pipe.prompt[2] = "Anime"

\* renderContent: only IdeaForm is given `error`; it renders it when non-null.
DisplayedError == IF appState = "FORM" THEN error ELSE NoError

\* C20: after a failed page or cover regeneration the viewer is shown again
\* with story and storyHistory as before, and the recorded error is displayed.
C20_RegenFailureShown ==
  lastOp \in RegenerationFailOps =>
     /\ appState = "PREVIEW"
     /\ story = pre.story
     /\ storyHistory = pre.storyHistory
     /\ error # NoError
     /\ DisplayedError = error

\* The request fields are malformed or missing: the body is not JSON, or its
\* JSON value has no usable `endpoint` or no usable `payload`.
MalformedRequest(inv) ==
  \/ ~inv.body.json
  \/ inv.body.type # "object"
  \/ inv.body.endpoint = Undefined
  \/ inv.body.payload = Undefined

\* C18: a POST request with malformed or missing fields is answered with a
\* 4xx status and without any fetch to the upstream service.
C18_ProxyRejectsMalformed ==
  (/\ proxy.response # NoResponse
   /\ proxy.request.method = "POST"
   /\ MalformedRequest(proxy.request)) =>
     /\ proxy.response.status \in 400..499
     /\ proxy.response.fetches = 0

\* C13: the busy indicator is released on every exit path. appState is LOADING
\* only while an App pipeline awaits a call, it is LOADING for as long as one
\* does, and isGeneratingPdf is set only while the export that set it is
\* still running.
C13_BusyReleased ==
  /\ (appState = "LOADING") <=> (pipe # Idle)
  /\ isGeneratingPdf =>
       \E j \in 1..Len(exports) : IsLegacyJob(exports[j]) /\ exports[j].mounted

\* A regeneration has failed and, after it, an export in which a capture failed
\* has saved its document; both indicators are clear.
C13_Witness ==
  /\ lastOp \in RegenerationFailOps
  /\ appState = "PREVIEW"
  /\ exports = <<>>
  /\ ~isGeneratingPdf
  /\ savedPdf.status = "saved"
  /\ Len(savedPdf.document) < Len(story.pages) + 2

\* C21: in every story committed to storyHistory the page ids are pairwise
\* distinct and the page at 1-based position k has id k.
C21_PageIdentity ==
  \A h \in 1..Len(storyHistory) :
    LET pages == storyHistory[h].pages IN
    /\ \A k \in 1..Len(pages) : pages[k].id = k
    /\ \A k, l \in 1..Len(pages) : pages[k].id = pages[l].id => k = l

\* C22: a non-2xx upstream response is answered by the proxy with the same
\* status and the upstream message, and the error callProxy throws to its
\* caller carries both that status and that message.
C22_UpstreamErrorSurfaced ==
  (/\ proxy.response # NoResponse
   /\ proxy.response.fetches = 1
   /\ proxy.request.upstream.kind = "error")
  => /\ proxy.response.status = proxy.request.upstream.status
     /\ proxy.response.message = proxy.request.upstream.message
     /\ LET thrown == callProxy(proxy.response) IN
          /\ thrown.threw
          /\ thrown.error.message = proxy.request.upstream.message
          /\ "status" \in DOMAIN thrown.error
          /\ thrown.error.status = proxy.request.upstream.status



\* The fixed message of the service revision that catches the parse error:
\* throw new Error("AIから返された物語のデータ形式が正しくありません。...").
DataShapeMessage == "data format of the story is not correct"

\* C23: a generation whose text answer cannot be decoded fails before any
\* image call, commits nothing, and shows the fixed data-shape message: a
\* text-stage failure that is not an upstream error shows that message, which
\* is none of the upstream messages and not the parser's text.
C23_DecodeFailure ==
  (lastOp = "generateTextFail" /\ error \notin ImageCallErrors)
  => /\ calls = <<"text">>
     /\ story = NullStory /\ storyHistory = <<>>
     /\ error = DataShapeMessage
     /\ DataShapeMessage \notin ImageCallErrors \cup {ParseError}

\* C24: handleRestart leaves story null, storyHistory empty, error null and
\* appState FORM from every PREVIEW state, and nothing of the discarded story
\* comes back: from then on the story becomes non-null only inside a new
\* generation, and the history is refilled only by that generation's commit,
\* with the story assembled from its own draft.
C24_RestartDiscards ==
  [][/\ (ViewerMounted /\ lastOp' = "restart")
        => /\ story' = NullStory /\ storyHistory' = <<>>
           /\ error' = NoError /\ appState' = "FORM"
           /\ pipe' = Idle
     /\ (story = NullStory /\ story' # NullStory)
        => /\ pipe.kind = "generate"
           /\ story'.title = draft.title
           /\ \A k \in 1..Len(story'.pages) : story'.pages[k].text = draft.pages[k].text
     /\ (storyHistory = <<>> /\ storyHistory' # <<>>)
        => /\ lastOp' = "generateDone"
           /\ storyHistory' = <<story'>>
           /\ story' = AssembledStory(draft)]_vars

\* handleRestart has run on a previewed story and has left the form state.
C24_Witness ==
  /\ lastOp = "restart"
  /\ appState = "FORM"
  /\ story = NullStory
  /\ storyHistory = <<>>
  /\ error = NoError

\* Page image calls of the running generation that have succeeded: all the
\* calls issued after the text and cover calls but the outstanding one.
SucceededPageCalls == Len(calls) - 3

\* C25: while a generation awaits a page image, after k page image calls have
\* succeeded, `story` has the cover image and exactly the first k pages of the
\* draft, in draft order, each with the image of its own prompt; a step of the
\* page stage leaves the pages attached before as they were.
C25_ProgressiveAssembly ==
  /\ [](pipe.kind = "generate" /\ pipe.stage = "page"
        => /\ story # NullStory
           /\ story.coverImageUrl = AssembledStory(draft).coverImageUrl
           /\ Len(story.pages) = SucceededPageCalls
           /\ story.pages = SubSeq(AssembledStory(draft).pages, 1, SucceededPageCalls))
  /\ [][pipe.kind = "generate" /\ pipe.stage = "page" /\ story' # NullStory
        => /\ Len(story'.pages) >= Len(story.pages)
           /\ SubSeq(story'.pages, 1, Len(story.pages)) = story.pages]_vars

\* One of two page images has been attached and the second is awaited.
C25_Witness ==
  /\ pipe.kind = "generate" /\ pipe.stage = "page"
  /\ Len(draft.pages) = 2
  /\ SucceededPageCalls = 1
  /\ Len(story.pages) = 1
  /\ story.pages[1].imageUrl # ""

\* C26: in the export that skips failed captures, whatever captures fail, the
\* saved document has exactly one page per successful capture, in capture
\* order, and no page without an image.
C26_ExportSlotDiscipline ==
  savedPdf.status = "saved"
  => /\ \A k \in 1..Len(savedPdf.document) : savedPdf.document[k] # BlankPage
     /\ \A k, l \in 1..Len(savedPdf.document) :
          savedPdf.document[k] = savedPdf.document[l] => k = l

\* C27: with the cover and page image calls in flight together, whatever the
\* order in which they complete, the committed story has on the cover the image
\* of the cover prompt and on page k the image of page k's prompt; and once any
\* of the calls has failed, no story is current or committed.
C27_ParallelGeneration ==
  /\ (pipe = Idle /\ story # NullStory)
     => /\ storyHistory = <<story>>
        /\ story.coverImageUrl =
             DataUrl(RenderImage(CoverPrompt(draft.title, draft.characterDescription,
                                             draft.artStyle)))
        /\ Len(story.pages) = Len(draft.pages)
        /\ \A k \in 1..Len(story.pages) :
             story.pages[k].imageUrl =
               DataUrl(RenderImage(PagePrompt(draft.pages[k].imagePrompt, draft.artStyle,
                                              draft.characterDescription)))
  /\ (/\ pipe.kind = "parallel" /\ pipe.stage \in {"images", "rejected"}
      /\ \E k \in DOMAIN pipe.results : pipe.results[k] = Failed)
     => /\ story = NullStory /\ storyHistory = <<>>
        /\ appState = "FORM" /\ error # NoError

\* Of the three calls of a two-page draft, both page calls have succeeded and
\* the cover call has failed.
C27_Witness ==
  /\ pipe.kind = "parallel" /\ pipe.stage = "rejected"
  /\ Len(draft.pages) = 2
  /\ Cardinality({k \in DOMAIN pipe.results : pipe.results[k].status = "ok"}) = 2
  /\ pipe.results[0] = Failed

\* C28: the context sent with the text call of a page regeneration for the
\* 0-based index i consists of the texts of pages 0..i-1 of the story the
\* command found, in order, one per line; it has no line for page i or a later
\* page and is empty for i = 0.
C28_RegenContext ==
  (pipe.kind = "page" /\ pipe.stage = "text")
  => LET i == pre.target
         lines == pipe.storyContext
     IN /\ pre.story = story
        /\ i >= 0 /\ i < Len(story.pages)
        /\ Len(lines) = i
        /\ \A k \in 1..i : lines[k] = story.pages[k].text
        /\ (i = 0 => lines = <<>>)

\* The second page is being regenerated after the text of the first was
\* edited: the context is the edited text.
C28_Witness ==
  /\ pipe.kind = "page" /\ pipe.stage = "text"
  /\ pre.target = 1
  /\ pipe.storyContext = <<story.pages[1].text>>
  /\ story.pages[1].text \in EditTexts

\* C29: the viewer's currentPageIndex stays within -1..pages.length; a page
\* regeneration and a text-edit save target an index i with 0 <= i <
\* pages.length, a cover regeneration is issued only from the cover, none is
\* issued from the afterword, and none with an empty or whitespace-only
\* instruction.
C29_ValidTargets ==
  /\ ViewerMounted => viewer.currentPageIndex \in -1..Len(story.pages)
  /\ pipe.kind = "page"
     => /\ pipe.pageIndex \in 0..(Len(pipe.story.pages) - 1)
        /\ pre.target = pipe.pageIndex
        /\ pipe.story = pre.story
  /\ pipe.kind = "cover" => pre.target = -1
  /\ (pipe.kind \in {"page", "cover"} /\ pipe.stage = "text")
     => Trim(pipe.instruction) # ""
  /\ lastOp = "saveTextEdit" => pre.target \in 0..(Len(pre.story.pages) - 1)

\* A regeneration of the last page of a story of MaxPages pages is in flight.
C29_Witness ==
  /\ pipe.kind = "page" /\ pipe.stage = "text"
  /\ Len(pipe.story.pages) = MaxPages
  /\ pipe.pageIndex = MaxPages - 1
  /\ pipe.instruction = "smile"

\* The decoded body has a truthy `endpoint` and a truthy `payload`.
HasEndpointAndPayload(body) ==
  /\ body.type = "object"
  /\ ~Falsy(body.endpoint) /\ ~Falsy(body.payload)

\* C30: a non-POST request is answered 405; a POST is checked for a decodable
\* JSON body (400), then for endpoint and payload (400), then for the API key
\* (500), in this order; none of these answers is preceded by a fetch, and a
\* fetch is made exactly when all three checks pass.
C30_ProxyGuardOrdering ==
  proxy.response # NoResponse
  => LET req == proxy.request
         res == proxy.response
     IN /\ req.method # "POST" => (res.status = 405 /\ res.fetches = 0)
        /\ (req.method = "POST" /\ ~req.body.json)
           => (res.status = 400 /\ res.fetches = 0)
        /\ (req.method = "POST" /\ req.body.json /\ ~HasEndpointAndPayload(req.body))
           => (res.status = 400 /\ res.fetches = 0)
        /\ (/\ req.method = "POST" /\ req.body.json
            /\ HasEndpointAndPayload(req.body) /\ ~req.apiKey)
           => (res.status = 500 /\ res.fetches = 0)
        /\ res.fetches = 1
           <=> (/\ req.method = "POST" /\ req.body.json
                /\ HasEndpointAndPayload(req.body) /\ req.apiKey)
====
